---- MODULE Spec2Model ----
(***************************************************************************)
(* A model of cascade.py: the CascadeAPI client of the Cascade portal.     *)
(*                                                                         *)
(* Representation of Python values:                                        *)
(*  - a string that ends up in a URL (the base URL, an endpoint, a path    *)
(*    argument) is a sequence of atoms; the atom "/" is the slash          *)
(*    character, any other atom is a non-empty run of characters that does *)
(*    not begin with a slash.  '' is <<>>, + and f-string substitution are *)
(*    \o, and s[0] is s[1];                                                *)
(*  - any other string is a TLA+ string;                                   *)
(*  - a dict is the sequence of its <<key, value>> items in insertion      *)
(*    order, {} is <<>>; a list is a sequence, [] is <<>>;                 *)
(*  - None is told from a value by the isNone field, an argument left to   *)
(*    its default from a supplied one by the given field.                  *)
(*                                                                         *)
(* One call of requests' session.get/post/delete is one request and one    *)
(* response (or a transport failure); what the transport does inside that  *)
(* call is not modelled.                                                   *)
(***************************************************************************)
EXTENDS Integers, Sequences, FiniteSets

VARIABLES
    client,                     \* client[c]: the attributes url and session.headers of instance c
    params_default,             \* the {} object that is __sendget's default for params
    billing_address_default,    \* the {} object that is create_customer's default for billing_address
    contacts_default,           \* the [] object that is create_customer's default for contacts
    pc,                         \* "idle", or "waiting" inside session.get/post/delete
    call,                       \* the current (waiting) or last (idle) invocation
    requests,                   \* the requests that invocation handed to the session
    result,                     \* how that invocation ended
    nOps,                       \* invocations so far
    nEndpointCalls,             \* invocations of endpoint operations so far
    sentLog                     \* for every request handed to the session so far, the
                                \* number of the endpoint invocation that issued it

vars == <<client, params_default, billing_address_default, contacts_default,
          pc, call, requests, result, nOps, nEndpointCalls, sentLog>>

(* ------------------------------ bounds --------------------------------- *)

MaxCalls == 2

(* ------------------------------ inputs --------------------------------- *)

Clients == {1, 2}
\* The username and the password each instance is constructed with
CtorUsername == <<"alice", "bob">>
CtorPassword == <<"pw1", "pw2">>
DefaultUrl == <<"https://api.cascadeportal.com">>
Urls == {DefaultUrl, <<"http://localhost:8080">>}

Domains == {<<"x.com">>, <<"y.org">>}
Codes == {<<"P1">>, <<"P2">>}
TenantIds == {<<"xco">>}
Quantities == {1, 10}
Dates == {"2020-11-17 00:00:00"}

\* What a caller may put where accept_mca expects the e-mail address: also a URL
AgreementUrls == {"a@b.com", "https://example.org/other-agreement"}

Endpoints == {<<>>, <<"/">>, <<"customers">>, <<"/", "customers">>,
              <<"customers", "/", "x.com">>, <<"/", "/", "customers">>}

JsonList == "[{\"PrimaryDomain\":\"x.com\"}]"
JsonDict == "{\"Quantity\":5}"
NotJson == "<html>Bad Gateway</html>"
Texts == {JsonList, JsonDict, NotJson}
Statuses == {200, 304, 404, 500}

Responses ==
    {[neterr |-> TRUE, status |-> 0, text |-> ""]}
    \cup {[neterr |-> FALSE, status |-> s, text |-> t] : s \in Statuses, t \in Texts}

(* --------------------------- Python values ----------------------------- *)

None == [isNone |-> TRUE, v |-> <<>>]
Some(x) == [isNone |-> FALSE, v |-> x]

Unset == [given |-> FALSE, v |-> <<>>]
Given(x) == [given |-> TRUE, v |-> x]

EmptyDict == <<>>
EmptyList == <<>>

\* Python truth of a str, of a dict and of a list
TruthyStr(s) == s # ""
TruthyDict(d) == Len(d) # 0
TruthyList(l) == Len(l) # 0

\* d.keys(), d[k] and d[k] = v
Keys(d) == {d[i][1] : i \in 1..Len(d)}
Get(d, k) == d[CHOOSE i \in 1..Len(d) : d[i][1] = k][2]
SetItem(d, k, v) ==
    IF k \in Keys(d)
    THEN LET i == CHOOSE j \in 1..Len(d) : d[j][1] = k
         IN  SubSeq(d, 1, i - 1) \o <<<<k, v>>>> \o SubSeq(d, i + 1, Len(d))
    ELSE Append(d, <<k, v>>)

(* ---------------------------- pure helpers ----------------------------- *)

\* make_address testing line2 where it should test state
make_address_line2_twice(line1, city, postcode, line2, state) ==
    LET data0 == <<<<"Line1", line1>>, <<"City", city>>, <<"Postcode", postcode>>>>
        data1 == IF TruthyStr(line2) THEN SetItem(data0, "Line2", line2) ELSE data0
        data2 == IF TruthyStr(line2) THEN SetItem(data1, "State", state) ELSE data1
    IN  data2

make_address(line1, city, postcode, line2, state) ==
    LET data0 == <<<<"Line1", line1>>, <<"City", city>>, <<"Postcode", postcode>>>>
        data1 == IF TruthyStr(line2) THEN SetItem(data0, "Line2", line2) ELSE data0
        data2 == IF TruthyStr(state) THEN SetItem(data1, "State", state) ELSE data1
    IN  data2

make_contact(firstname, lastname, email, phone, contacttype, primary) ==
    <<<<"FirstName", firstname>>, <<"LastName", lastname>>, <<"EmailAddress", email>>,
      <<"PhoneNumber", phone>>, <<"ContactType", contacttype>>,
      <<"IsPrimaryContact", primary>>>>

\* Values the callers below pass
HeadOffice == make_address("1 Main St", "London", "AB1 2CD", "", "")
BillingOffice == make_address("2 Side St", "Leeds", "LS1 1AA", "Suite 5", "")
BillingContact == make_contact("A", "B", "a@b.com", "123", "BillingContact", TRUE)
MaybeDicts == {Unset, Given(EmptyDict), Given(BillingOffice)}
MaybeLists == {Unset, Given(EmptyList), Given(<<BillingContact>>)}
OptStrs(x) == {"", x}
MaybeParams == {Unset, Given(EmptyDict), Given(<<<<"page", "2">>>>)}
MaybeData == {None, Some(EmptyDict), Some(<<<<"Quantity", 1>>>>)}
ProductInformation ==
    <<<<"Reference", "17112020">>,
      <<"Subscriptions", <<<<<<"ProductCode", "R-UK-CSP-365BT-CMC">>, <<"Quantity", 1>>>>>>>>>>

(* ------------------------------ helpers -------------------------------- *)

\* What a helper does up to and including its call of the session: the
\* exception it raised before that, or the requests it handed to the session.
Raised(e) == [exc |-> e, requests |-> <<>>]
Issued(req) == [exc |-> "", requests |-> <<req>>]

sendget(self, endpoint, params) ==
    IF Len(endpoint) = 0 THEN Raised("IndexError")
    ELSE LET ep == IF ~(endpoint[1] = "/") THEN <<"/">> \o endpoint ELSE endpoint
         IN  Issued([method |-> "GET", url |-> client[self].url \o ep,
                     headers |-> client[self].headers,
                     params |-> Some(params), json |-> None])

sendpost(self, endpoint, data) ==
    IF Len(endpoint) = 0 THEN Raised("IndexError")
    ELSE LET ep == IF ~(endpoint[1] = "/") THEN <<"/">> \o endpoint ELSE endpoint
         IN  Issued([method |-> "POST", url |-> client[self].url \o ep,
                     headers |-> client[self].headers,
                     params |-> None, json |-> data])

senddelete(self, endpoint) ==
    IF Len(endpoint) = 0 THEN Raised("IndexError")
    ELSE LET ep == IF ~(endpoint[1] = "/") THEN <<"/">> \o endpoint ELSE endpoint
         IN  Issued([method |-> "DELETE", url |-> client[self].url \o ep,
                     headers |-> client[self].headers,
                     params |-> None, json |-> None])

(* ---------------------------- construction ----------------------------- *)

\* __init__ sending the username as the password
CascadeAPI_username_twice(username, password, url) ==
    [url |-> url,
     headers |-> <<<<"X-Username", username>>, <<"X-Password", username>>,
                   <<"Content-Type", "application/json; charset=utf-8">>>>]

\* __init__: the attributes of a new instance.  debug only turns logging on.
CascadeAPI(username, password, url) ==
    [url |-> url,
     headers |-> SetItem(SetItem(SetItem(EmptyDict, "X-Username", username),
                                 "X-Password", password),
                         "Content-Type", "application/json; charset=utf-8")]

(* ------------------------- handling a response ------------------------- *)

\* raise_for_status() raising for the server errors only
raise_for_status_5xx_only(resp) == 500 <= resp.status /\ resp.status < 600

\* Response.raise_for_status(): TRUE when it raises HTTPError
raise_for_status(resp) == 400 <= resp.status /\ resp.status < 600

\* Response.json(): the decoded body, or ok = FALSE when it raises JSONDecodeError
json(resp) ==
    IF resp.text = JsonList THEN [ok |-> TRUE, v |-> <<<<<<"PrimaryDomain", "x.com">>>>>>]
    ELSE IF resp.text = JsonDict THEN [ok |-> TRUE, v |-> <<<<"Quantity", 5>>>>]
    ELSE [ok |-> FALSE, v |-> <<>>]

Pending == [done |-> FALSE, exc |-> "", status |-> 0, text |-> "", ret |-> None, resp |-> None]
Raise(e, resp) == [done |-> TRUE, exc |-> e, status |-> 0, text |-> "", ret |-> None, resp |-> resp]
RaiseHTTPError(resp) ==
    [done |-> TRUE, exc |-> "HTTPError", status |-> resp.status, text |-> resp.text,
     ret |-> None, resp |-> Some(resp)]
Return(x, resp) == [done |-> TRUE, exc |-> "", status |-> 0, text |-> "", ret |-> x, resp |-> resp]

\* Finish returning None where the body of the response does not decode
Finish_swallow_decode_error(then, resp) ==
    IF resp.neterr THEN Raise("ConnectionError", None)
    ELSE IF raise_for_status(resp) THEN RaiseHTTPError(resp)
    ELSE IF then = "json"
         THEN IF json(resp).ok THEN Return(Some(json(resp).v), Some(resp))
              ELSE Return(None, Some(resp))
    ELSE IF then = "none" THEN Return(None, Some(resp))
    ELSE Return(Some(resp), Some(resp))

\* The rest of an invocation once the session call is over: the helper's
\* raise_for_status() and return, then what the operation does with the
\* response ("json": return response.json(); "none": drop it and return None;
\* "response": a helper called on its own returns the response).
Finish(then, resp) ==
    IF resp.neterr THEN Raise("ConnectionError", None)
    ELSE IF raise_for_status(resp) THEN RaiseHTTPError(resp)
    ELSE IF then = "json"
         THEN IF json(resp).ok THEN Return(Some(json(resp).v), Some(resp))
              ELSE Raise("JSONDecodeError", Some(resp))
    ELSE IF then = "none" THEN Return(None, Some(resp))
    ELSE Return(Some(resp), Some(resp))

(* ----------------------------- invocations ----------------------------- *)

\* Invoke keeping the request's URL as the instance's base URL
Invoke_keep_url(self, op, args, h, then) ==
    /\ pc = "idle"
    /\ nOps < MaxCalls
    /\ call' = [op |-> op, self |-> self, args |-> args, then |-> then]
    /\ requests' = h.requests
    /\ nOps' = nOps + 1
    /\ nEndpointCalls' = nEndpointCalls + 1
    /\ sentLog' = sentLog \o [i \in 1..Len(h.requests) |-> nEndpointCalls + 1]
    /\ IF h.exc # ""
       THEN pc' = "idle" /\ result' = Raise(h.exc, None) /\ client' = client
       ELSE /\ pc' = "waiting" /\ result' = Pending
            /\ client' = [client EXCEPT ![self].url = h.requests[1].url]
    /\ UNCHANGED <<params_default, billing_address_default, contacts_default>>

\* An invocation up to its session call.  h is what the helper did, then is
\* what the operation does with the response.
Invoke(self, op, args, h, then) ==
    /\ pc = "idle"
    /\ nOps < MaxCalls
    /\ call' = [op |-> op, self |-> self, args |-> args, then |-> then]
    /\ requests' = h.requests
    /\ nOps' = nOps + 1
    /\ nEndpointCalls' = nEndpointCalls + 1
    /\ sentLog' = sentLog \o [i \in 1..Len(h.requests) |-> nEndpointCalls + 1]
    /\ IF h.exc # ""
       THEN pc' = "idle" /\ result' = Raise(h.exc, None)
       ELSE pc' = "waiting" /\ result' = Pending
    /\ UNCHANGED <<client, params_default, billing_address_default, contacts_default>>

\* Respond sending the request once more after a server error
Respond_retry(resp) ==
    /\ pc = "waiting"
    /\ IF ~resp.neterr /\ resp.status >= 500 /\ Len(requests) = 1
       THEN /\ pc' = "waiting"
            /\ requests' = requests \o requests
            /\ sentLog' = Append(sentLog, nEndpointCalls)
            /\ result' = result
       ELSE /\ pc' = "idle"
            /\ result' = Finish(call.then, resp)
            /\ UNCHANGED <<requests, sentLog>>
    /\ UNCHANGED <<client, params_default, billing_address_default, contacts_default,
                   call, nOps, nEndpointCalls>>

\* The session call ends: with a response or with a transport failure.
Respond(resp) ==
    /\ pc = "waiting"
    /\ pc' = "idle"
    /\ result' = Finish(call.then, resp)
    /\ UNCHANGED <<client, params_default, billing_address_default, contacts_default,
                   call, requests, nOps, nEndpointCalls, sentLog>>

get_all_customers(self) ==
    Invoke(self, "get_all_customers", <<>>,
           sendget(self, <<"/", "Customers">>, params_default), "json")

get_customer(self, primarydomain) ==
    Invoke(self, "get_customer", [primarydomain |-> primarydomain],
           sendget(self, <<"/", "Customers", "/">> \o primarydomain, params_default), "json")

get_customer_tenant(self, primarydomain) ==
    Invoke(self, "get_customer_tenant", [primarydomain |-> primarydomain],
           sendget(self, <<"/", "customers", "/">> \o primarydomain
                         \o <<"/", "MicrosoftTenantAssociation">>, params_default), "json")

get_customer_mca(self, primarydomain) ==
    Invoke(self, "get_customer_mca", [primarydomain |-> primarydomain],
           sendget(self, <<"/", "customers", "/">> \o primarydomain
                         \o <<"/", "McaAcceptance">>, params_default), "json")

get_customer_subscriptions(self, primarydomain) ==
    Invoke(self, "get_customer_subscriptions", [primarydomain |-> primarydomain],
           sendget(self, <<"/", "customers", "/">> \o primarydomain
                         \o <<"/", "subscriptions">>, params_default), "json")

get_customer_subscription(self, primarydomain, productcode) ==
    Invoke(self, "get_customer_subscription",
           [primarydomain |-> primarydomain, productcode |-> productcode],
           sendget(self, <<"/", "customers", "/">> \o primarydomain
                         \o <<"/", "subscriptions", "/">> \o productcode, params_default),
           "json")

get_cancellation_request(self, primarydomain, productcode) ==
    Invoke(self, "get_cancellation_request",
           [primarydomain |-> primarydomain, productcode |-> productcode],
           sendget(self, <<"/", "customers", "/">> \o primarydomain
                         \o <<"/", "subscriptions", "/">> \o productcode
                         \o <<"/", "cancellation-request">>, params_default),
           "json")

\* create_customer's data with EUVATNumber set whatever eu_vat_number is
create_customer_data_vat_always(primarydomain, customername, reference, head_office_address, isactive, eu_vat_number, iso_country_code, admin_password, billing_address, contacts) ==
    LET data0 == <<<<"PrimaryDomain", primarydomain>>, <<"Name", customername>>,
                   <<"Reference", reference>>, <<"IsActive", isactive>>,
                   <<"HeadOfficeAddress", head_office_address>>>>
        data1 == SetItem(data0, "EUVATNumber", eu_vat_number)
        data2 == IF TruthyStr(iso_country_code)
                 THEN SetItem(data1, "IsoCountryCode", iso_country_code) ELSE data1
        data3 == IF TruthyStr(admin_password)
                 THEN SetItem(data2, "AdministratorPassword", admin_password) ELSE data2
        data4 == IF TruthyDict(billing_address)
                 THEN SetItem(data3, "BillingAddress", billing_address) ELSE data3
        data5 == IF TruthyList(contacts) THEN SetItem(data4, "Contacts", contacts) ELSE data4
    IN  data5

\* create_customer's data with BillingAddress set whatever billing_address is
create_customer_data_billing_always(primarydomain, customername, reference, head_office_address, isactive, eu_vat_number, iso_country_code, admin_password, billing_address, contacts) ==
    LET data0 == <<<<"PrimaryDomain", primarydomain>>, <<"Name", customername>>,
                   <<"Reference", reference>>, <<"IsActive", isactive>>,
                   <<"HeadOfficeAddress", head_office_address>>>>
        data1 == IF TruthyStr(eu_vat_number)
                 THEN SetItem(data0, "EUVATNumber", eu_vat_number) ELSE data0
        data2 == IF TruthyStr(iso_country_code)
                 THEN SetItem(data1, "IsoCountryCode", iso_country_code) ELSE data1
        data3 == IF TruthyStr(admin_password)
                 THEN SetItem(data2, "AdministratorPassword", admin_password) ELSE data2
        data4 == SetItem(data3, "BillingAddress", billing_address)
        data5 == IF TruthyList(contacts) THEN SetItem(data4, "Contacts", contacts) ELSE data4
    IN  data5

\* create_customer's data, billing_address and contacts being the objects the
\* parameters are bound to
create_customer_data(primarydomain, customername, reference, head_office_address, isactive, eu_vat_number, iso_country_code, admin_password, billing_address, contacts) ==
    LET data0 == <<<<"PrimaryDomain", primarydomain>>, <<"Name", customername>>,
                   <<"Reference", reference>>, <<"IsActive", isactive>>,
                   <<"HeadOfficeAddress", head_office_address>>>>
        data1 == IF TruthyStr(eu_vat_number)
                 THEN SetItem(data0, "EUVATNumber", eu_vat_number) ELSE data0
        data2 == IF TruthyStr(iso_country_code)
                 THEN SetItem(data1, "IsoCountryCode", iso_country_code) ELSE data1
        data3 == IF TruthyStr(admin_password)
                 THEN SetItem(data2, "AdministratorPassword", admin_password) ELSE data2
        data4 == IF TruthyDict(billing_address)
                 THEN SetItem(data3, "BillingAddress", billing_address) ELSE data3
        data5 == IF TruthyList(contacts) THEN SetItem(data4, "Contacts", contacts) ELSE data4
    IN  data5

create_customer(self, primarydomain, customername, reference, head_office_address, isactive, eu_vat_number, iso_country_code, admin_password, billing_address, contacts) ==
    LET ba == IF billing_address.given THEN billing_address.v ELSE billing_address_default
        cs == IF contacts.given THEN contacts.v ELSE contacts_default
        data == create_customer_data(primarydomain, customername, reference,
                                     head_office_address, isactive, eu_vat_number,
                                     iso_country_code, admin_password, ba, cs)
    IN  Invoke(self, "create_customer",
               [primarydomain |-> primarydomain, customername |-> customername,
                reference |-> reference, head_office_address |-> head_office_address,
                isactive |-> isactive, eu_vat_number |-> eu_vat_number,
                iso_country_code |-> iso_country_code, admin_password |-> admin_password,
                billing_address |-> billing_address, contacts |-> contacts],
               sendpost(self, <<"/", "customers">>, Some(data)), "none")

create_tenant(self, customer, tenantid) ==
    Invoke(self, "create_tenant", [customer |-> customer, tenantid |-> tenantid],
           sendpost(self, <<"/", "customers", "/">> \o customer
                          \o <<"/", "MicrosoftTenant", "/">> \o tenantid
                          \o <<".onmicrosoft.com">>, None), "none")

create_subscription(self, customer, productinformation) ==
    Invoke(self, "create_subscription",
           [customer |-> customer, productinformation |-> productinformation],
           sendpost(self, <<"/", "customers", "/">> \o customer \o <<"/", "subscriptions">>,
                    Some(productinformation)), "none")

update_subscription(self, customer, productcode, newqty) ==
    Invoke(self, "update_subscription",
           [customer |-> customer, productcode |-> productcode, newqty |-> newqty],
           sendpost(self, <<"/", "customers", "/">> \o customer
                          \o <<"/", "subscriptions", "/">> \o productcode,
                    Some(<<<<"Quantity", newqty>>>>)), "none")

\* upgrade_subscription posting update_subscription's key
upgrade_subscription_quantity_key(self, customer, oldproductcode, newproductcode) ==
    Invoke(self, "upgrade_subscription",
           [customer |-> customer, oldproductcode |-> oldproductcode,
            newproductcode |-> newproductcode],
           sendpost(self, <<"/", "customers", "/">> \o customer
                          \o <<"/", "subscriptions", "/">> \o oldproductcode,
                    Some(<<<<"Quantity", newproductcode>>>>)), "none")

upgrade_subscription(self, customer, oldproductcode, newproductcode) ==
    Invoke(self, "upgrade_subscription",
           [customer |-> customer, oldproductcode |-> oldproductcode,
            newproductcode |-> newproductcode],
           sendpost(self, <<"/", "customers", "/">> \o customer
                          \o <<"/", "subscriptions", "/">> \o oldproductcode,
                    Some(<<<<"ProductCode", newproductcode>>>>)), "none")

submit_cancellation_request(self, customer, productcode, daterequested) ==
    Invoke(self, "submit_cancellation_request",
           [customer |-> customer, productcode |-> productcode,
            daterequested |-> daterequested],
           sendpost(self, <<"/", "customers", "/">> \o customer
                          \o <<"/", "subscriptions", "/">> \o productcode
                          \o <<"/", "cancellation-request">>,
                    Some(<<<<"CancellationDateRequested", daterequested>>>>)), "none")

abort_cancellation_request(self, customer, productcode) ==
    Invoke(self, "abort_cancellation_request",
           [customer |-> customer, productcode |-> productcode],
           senddelete(self, <<"/", "customers", "/">> \o customer
                            \o <<"/", "subscriptions", "/">> \o productcode
                            \o <<"/", "cancellation-request">>), "none")

accept_mca(self, customer, dateaccepted, firstname, surname, phone, email, line1, postcode, countryid) ==
    LET data == <<<<"DateAccepted", dateaccepted>>, <<"FirstName", firstname>>,
                  <<"Surname", surname>>, <<"PhoneNumber", phone>>,
                  <<"EmailAddress", email>>, <<"AddressLine1", line1>>,
                  <<"Postcode", postcode>>, <<"CountryId", countryid>>,
                  <<"AgreementUrl", "https://aka.ms/customeragreement">>>>
    IN  Invoke(self, "accept_mca",
               [customer |-> customer, dateaccepted |-> dateaccepted,
                firstname |-> firstname, surname |-> surname, phone |-> phone,
                email |-> email, line1 |-> line1, postcode |-> postcode,
                countryid |-> countryid],
               sendpost(self, <<"/", "customers", "/">> \o customer
                              \o <<"/", "McaAcceptance">>, Some(data)), "none")

\* An invocation of a pure helper: it returns at once and touches nothing else.
InvokePure(self, op, args, value) ==
    /\ pc = "idle"
    /\ nOps < MaxCalls
    /\ call' = [op |-> op, self |-> self, args |-> args, then |-> "pure"]
    /\ requests' = <<>>
    /\ result' = Return(Some(value), None)
    /\ nOps' = nOps + 1
    /\ UNCHANGED <<client, params_default, billing_address_default, contacts_default,
                   pc, nEndpointCalls, sentLog>>

call_make_address(self, line1, city, postcode, line2, state) ==
    InvokePure(self, "make_address",
               [line1 |-> line1, city |-> city, postcode |-> postcode,
                line2 |-> line2, state |-> state],
               make_address(line1, city, postcode, line2, state))

call_make_contact(self, firstname, lastname, email, phone, contacttype, primary) ==
    InvokePure(self, "make_contact",
               [firstname |-> firstname, lastname |-> lastname, email |-> email,
                phone |-> phone, contacttype |-> contacttype, primary |-> primary],
               make_contact(firstname, lastname, email, phone, contacttype, primary))

\* The name-mangled helpers called on their own (_CascadeAPI__sendget, ...)
call_sendget(self, endpoint, params) ==
    Invoke(self, "sendget", [endpoint |-> endpoint, params |-> params],
           sendget(self, endpoint, IF params.given THEN params.v ELSE params_default),
           "response")

call_sendpost(self, endpoint, data) ==
    Invoke(self, "sendpost", [endpoint |-> endpoint, data |-> data],
           sendpost(self, endpoint, data), "response")

call_senddelete(self, endpoint) ==
    Invoke(self, "senddelete", [endpoint |-> endpoint], senddelete(self, endpoint),
           "response")

(* --------------------------- specifications ---------------------------- *)

Init ==
    /\ \E url \in Urls :
           client = <<CascadeAPI(CtorUsername[1], CtorPassword[1], DefaultUrl),
                      CascadeAPI(CtorUsername[2], CtorPassword[2], url)>>
    /\ params_default = EmptyDict
    /\ billing_address_default = EmptyDict
    /\ contacts_default = EmptyList
    /\ pc = "idle"
    /\ call = [op |-> "", self |-> 0, args |-> <<>>, then |-> ""]
    /\ requests = <<>>
    /\ result = Pending
    /\ nOps = 0
    /\ nEndpointCalls = 0
    /\ sentLog = <<>>

Next ==
    \/ \E self \in Clients : get_all_customers(self)
    \/ \E self \in Clients, d \in Domains : get_customer(self, d)
    \/ \E self \in Clients, d \in Domains : get_customer_tenant(self, d)
    \/ \E self \in Clients, d \in Domains : get_customer_mca(self, d)
    \/ \E self \in Clients, d \in Domains : get_customer_subscriptions(self, d)
    \/ \E self \in Clients, d \in Domains, c \in Codes :
           get_customer_subscription(self, d, c)
    \/ \E self \in Clients, d \in Domains, c \in Codes :
           get_cancellation_request(self, d, c)
    \/ \E self \in Clients, isactive \in BOOLEAN, vat \in OptStrs("GB123456789"),
          ba \in {Unset, Given(BillingOffice)} :
           create_customer(self, "x.com", "X Ltd", "ref-1", HeadOffice, isactive,
                           vat, "GBR", "", ba, Given(<<BillingContact>>))
    \/ \E self \in Clients, d \in Domains, t \in TenantIds : create_tenant(self, d, t)
    \/ \E self \in Clients, d \in Domains, pi \in {EmptyDict, ProductInformation} :
           create_subscription(self, d, pi)
    \/ \E self \in Clients, d \in Domains, c \in Codes, q \in Quantities :
           update_subscription(self, d, c, q)
    \/ \E self \in Clients, d \in Domains, c \in Codes :
           upgrade_subscription(self, d, c, <<"P3">>)
    \/ \E self \in Clients, d \in Domains, c \in Codes, t \in Dates :
           submit_cancellation_request(self, d, c, t)
    \/ \E self \in Clients, d \in Domains, c \in Codes :
           abort_cancellation_request(self, d, c)
    \/ \E self \in Clients, d \in Domains, url \in AgreementUrls :
           accept_mca(self, d, "2019-02-06T00:00:00", "A", "B", "123", url,
                      "1 Main St", "AB1 2CD", 26)
    \/ \E self \in Clients, line2 \in OptStrs("Suite 5"), state \in OptStrs("CA") :
           call_make_address(self, "1 Main St", "London", "AB1 2CD", line2, state)
    \/ \E self \in Clients, t \in {"ITContact", "BillingContact"}, primary \in BOOLEAN :
           call_make_contact(self, "A", "B", "a@b.com", "123", t, primary)
    \/ \E resp \in Responses : Respond(resp)

Spec == Init /\ [][Next]_vars

\* create_customer with every combination of its optional arguments, between
\* GETs with and without query parameters
NextCustomers ==
    \/ \E self \in Clients, isactive \in BOOLEAN, vat \in OptStrs("GB123456789"),
          iso \in OptStrs("GBR"), pw \in OptStrs("s3cret"),
          ba \in MaybeDicts, cs \in MaybeLists :
           create_customer(self, "x.com", "X Ltd", "ref-1", HeadOffice, isactive,
                           vat, iso, pw, ba, cs)
    \/ \E self \in Clients : get_all_customers(self)
    \/ \E self \in Clients, p \in MaybeParams :
           call_sendget(self, <<"/", "Customers">>, p)
    \/ \E resp \in Responses : Respond(resp)

SpecCustomers == Init /\ [][NextCustomers]_vars

\* The helpers called on their own, with any endpoint
NextHelpers ==
    \/ \E self \in Clients, e \in Endpoints, p \in MaybeParams : call_sendget(self, e, p)
    \/ \E self \in Clients, e \in Endpoints, d \in MaybeData : call_sendpost(self, e, d)
    \/ \E self \in Clients, e \in Endpoints : call_senddelete(self, e)
    \/ \E resp \in Responses : Respond(resp)

SpecHelpers == Init /\ [][NextHelpers]_vars

(* -------------------------------- claims ------------------------------- *)

GetOps == {"get_all_customers", "get_customer", "get_customer_tenant", "get_customer_mca",
           "get_customer_subscriptions", "get_customer_subscription",
           "get_cancellation_request"}
PostOps == {"create_customer", "create_tenant", "create_subscription",
            "update_subscription", "upgrade_subscription",
            "submit_cancellation_request", "accept_mca"}
DeleteOps == {"abort_cancellation_request"}
EndpointOps == GetOps \cup PostOps \cup DeleteOps
PureOps == {"make_address", "make_contact"}
HelperOps == {"sendget", "sendpost", "senddelete"}

\* The last invocation is over and there was a response to its request
Answered == pc = "idle" /\ result.done /\ ~result.resp.isNone
Received == result.resp.v

\* C1 as stated: whenever the response to a public operation's request has a
\* status outside 200..299, the operation fails with an HTTP error carrying that
\* status and the body, and returns no value.
C1_NonTwoXXRaises ==
    (Answered /\ call.op \in EndpointOps /\ Received.status \notin 200..299)
        => /\ result.exc = "HTTPError"
           /\ result.status = Received.status
           /\ result.text = Received.text
           /\ result.ret = None

\* C1 as amended: whenever the response to a public operation's request has a
\* status in 400..599, the operation fails with an HTTP error carrying that
\* status and the body and returns no value, whether or not the body is JSON:
\* the status is checked before any decoding.
C1_ErrorStatusRaises ==
    (Answered /\ call.op \in EndpointOps
              /\ Received.status >= 400 /\ Received.status <= 599)
        => /\ result.exc = "HTTPError"
           /\ result.status = Received.status
           /\ result.text = Received.text
           /\ result.ret = None

\* C1's case: a GET operation got a 404 whose body is valid JSON and failed
\* with the HTTP error, nothing decoded.
C1_Witness ==
    /\ Answered
    /\ call.op = "get_customer"
    /\ Received.status = 404
    /\ Received.text = JsonList
    /\ result.exc = "HTTPError"
    /\ result.status = 404

\* C2: every request handed to the session carries X-Username and X-Password as
\* given to the constructor of the instance that issued it, and the JSON
\* Content-Type, whatever the operation and with or without a body.
C2_FixedHeaders ==
    \A i \in 1..Len(requests) :
        /\ {"X-Username", "X-Password", "Content-Type"} \subseteq Keys(requests[i].headers)
        /\ Get(requests[i].headers, "X-Username") = CtorUsername[call.self]
        /\ Get(requests[i].headers, "X-Password") = CtorPassword[call.self]
        /\ Get(requests[i].headers, "Content-Type") = "application/json; charset=utf-8"

\* C2's case: the second invocation is a POST without a body, on instance 2.
C2_Witness ==
    /\ nOps = 2
    /\ call.op = "create_tenant"
    /\ call.self = 2
    /\ Len(requests) = 1
    /\ requests[1].json = None

\* The endpoint the claim says a helper sends to
Normalized(endpoint) ==
    IF Len(endpoint) > 0 /\ endpoint[1] = "/" THEN endpoint ELSE <<"/">> \o endpoint

\* C3 as stated: a helper called with any endpoint string, the empty one
\* included, sends one request to the base URL followed by the endpoint with a
\* slash prepended unless it starts with one.
C3_Normalization ==
    call.op \in HelperOps
        => /\ Len(requests) = 1
           /\ requests[1].url = client[call.self].url \o Normalized(call.args.endpoint)

\* C3 for the endpoints that are not empty (what the code does): the request
\* goes to base URL + normalized endpoint, and normalizing twice changes nothing.
C3_NonEmptyNormalization ==
    (call.op \in HelperOps /\ Len(call.args.endpoint) > 0)
        => /\ Len(requests) = 1
           /\ requests[1].url = client[call.self].url \o Normalized(call.args.endpoint)
           /\ Normalized(Normalized(call.args.endpoint)) = Normalized(call.args.endpoint)

\* The keys of create_customer's body, from the arguments as the caller gave them
CustomerKeys(a) ==
    {"PrimaryDomain", "Name", "Reference", "IsActive", "HeadOfficeAddress"}
    \cup (IF a.eu_vat_number # "" THEN {"EUVATNumber"} ELSE {})
    \cup (IF a.iso_country_code # "" THEN {"IsoCountryCode"} ELSE {})
    \cup (IF a.admin_password # "" THEN {"AdministratorPassword"} ELSE {})
    \cup (IF a.billing_address.given /\ a.billing_address.v # EmptyDict
          THEN {"BillingAddress"} ELSE {})
    \cup (IF a.contacts.given /\ a.contacts.v # EmptyList THEN {"Contacts"} ELSE {})

\* C4: create_customer posts a body with exactly the five required keys plus
\* each optional key whose argument is not empty, every key with its argument's
\* value; IsActive is there also when false.
C4_CustomerBody ==
    call.op = "create_customer"
        => /\ Len(requests) = 1
           /\ ~requests[1].json.isNone
           /\ LET d == requests[1].json.v
                  a == call.args
              IN  /\ Keys(d) = CustomerKeys(a)
                  /\ Len(d) = Cardinality(Keys(d))
                  /\ Get(d, "PrimaryDomain") = a.primarydomain
                  /\ Get(d, "Name") = a.customername
                  /\ Get(d, "Reference") = a.reference
                  /\ Get(d, "IsActive") = a.isactive
                  /\ Get(d, "HeadOfficeAddress") = a.head_office_address
                  /\ "EUVATNumber" \in Keys(d) => Get(d, "EUVATNumber") = a.eu_vat_number
                  /\ "IsoCountryCode" \in Keys(d)
                        => Get(d, "IsoCountryCode") = a.iso_country_code
                  /\ "AdministratorPassword" \in Keys(d)
                        => Get(d, "AdministratorPassword") = a.admin_password
                  /\ "BillingAddress" \in Keys(d)
                        => Get(d, "BillingAddress") = a.billing_address.v
                  /\ "Contacts" \in Keys(d) => Get(d, "Contacts") = a.contacts.v

\* C4's case: inactive customer, VAT number and contacts given, country code and
\* password empty, billing address an empty dict.
C4_Witness ==
    /\ call.op = "create_customer"
    /\ call.args.isactive = FALSE
    /\ call.args.eu_vat_number # ""
    /\ call.args.iso_country_code = ""
    /\ call.args.admin_password = ""
    /\ call.args.billing_address = Given(EmptyDict)
    /\ call.args.contacts = Given(<<BillingContact>>)
    /\ Keys(requests[1].json.v) = {"PrimaryDomain", "Name", "Reference", "IsActive",
                                    "HeadOfficeAddress", "EUVATNumber", "Contacts"}

\* C5: every endpoint invocation hands exactly one request to the session, the
\* pure helpers none, nothing is sent again after a failure, and an invocation
\* is over only with a response or a failure at hand: the requests sent so far
\* are those of the endpoint invocations so far, one each, in call order.
C5_OneRequestPerCall ==
    /\ sentLog = [i \in 1..nEndpointCalls |-> i]
    /\ call.op \in EndpointOps => Len(requests) = 1
    /\ call.op \in PureOps => requests = <<>>
    /\ (call.op \in EndpointOps /\ pc = "idle")
          => /\ result.done
             /\ result.exc = "ConnectionError" \/ ~result.resp.isNone
    /\ (call.op \in EndpointOps /\ pc = "waiting") => ~result.done

\* C5's case: a second endpoint invocation ended with a 500 and sent nothing more.
C5_Witness ==
    /\ nEndpointCalls = 2
    /\ sentLog = <<1, 2>>
    /\ Answered
    /\ Received.status = 500
    /\ result.exc = "HTTPError"

\* The operation table: the path of an endpoint invocation
TablePath(op, a) ==
    CASE op = "get_all_customers" -> <<"/", "Customers">>
      [] op = "get_customer" -> <<"/", "Customers", "/">> \o a.primarydomain
      [] op = "get_customer_tenant" ->
            <<"/", "customers", "/">> \o a.primarydomain
            \o <<"/", "MicrosoftTenantAssociation">>
      [] op = "get_customer_mca" ->
            <<"/", "customers", "/">> \o a.primarydomain \o <<"/", "McaAcceptance">>
      [] op = "get_customer_subscriptions" ->
            <<"/", "customers", "/">> \o a.primarydomain \o <<"/", "subscriptions">>
      [] op = "get_customer_subscription" ->
            <<"/", "customers", "/">> \o a.primarydomain
            \o <<"/", "subscriptions", "/">> \o a.productcode
      [] op = "get_cancellation_request" ->
            <<"/", "customers", "/">> \o a.primarydomain
            \o <<"/", "subscriptions", "/">> \o a.productcode
            \o <<"/", "cancellation-request">>
      [] op = "create_customer" -> <<"/", "customers">>
      [] op = "create_tenant" ->
            <<"/", "customers", "/">> \o a.customer \o <<"/", "MicrosoftTenant", "/">>
            \o a.tenantid \o <<".onmicrosoft.com">>
      [] op = "create_subscription" ->
            <<"/", "customers", "/">> \o a.customer \o <<"/", "subscriptions">>
      [] op = "update_subscription" ->
            <<"/", "customers", "/">> \o a.customer
            \o <<"/", "subscriptions", "/">> \o a.productcode
      [] op = "upgrade_subscription" ->
            <<"/", "customers", "/">> \o a.customer
            \o <<"/", "subscriptions", "/">> \o a.oldproductcode
      [] op = "submit_cancellation_request" ->
            <<"/", "customers", "/">> \o a.customer
            \o <<"/", "subscriptions", "/">> \o a.productcode
            \o <<"/", "cancellation-request">>
      [] op = "abort_cancellation_request" ->
            <<"/", "customers", "/">> \o a.customer
            \o <<"/", "subscriptions", "/">> \o a.productcode
            \o <<"/", "cancellation-request">>
      [] op = "accept_mca" ->
            <<"/", "customers", "/">> \o a.customer \o <<"/", "McaAcceptance">>

\* The operation table: whether body b is the one of the row
TableBody(op, a, b) ==
    CASE op \in GetOps \cup DeleteOps \cup {"create_tenant"} -> b = None
      [] op = "create_customer" ->
            /\ ~b.isNone
            /\ {"PrimaryDomain", "Name", "Reference", "IsActive", "HeadOfficeAddress"}
                   \subseteq Keys(b.v)
      [] op = "create_subscription" -> b = Some(a.productinformation)
      [] op = "update_subscription" -> b = Some(<<<<"Quantity", a.newqty>>>>)
      [] op = "upgrade_subscription" -> b = Some(<<<<"ProductCode", a.newproductcode>>>>)
      [] op = "submit_cancellation_request" ->
            b = Some(<<<<"CancellationDateRequested", a.daterequested>>>>)
      [] op = "accept_mca" ->
            /\ ~b.isNone
            /\ Keys(b.v) = {"DateAccepted", "FirstName", "Surname", "PhoneNumber",
                            "EmailAddress", "AddressLine1", "Postcode", "CountryId",
                            "AgreementUrl"}
            /\ Len(b.v) = 9
            /\ Get(b.v, "DateAccepted") = a.dateaccepted
            /\ Get(b.v, "FirstName") = a.firstname
            /\ Get(b.v, "Surname") = a.surname
            /\ Get(b.v, "PhoneNumber") = a.phone
            /\ Get(b.v, "EmailAddress") = a.email
            /\ Get(b.v, "AddressLine1") = a.line1
            /\ Get(b.v, "Postcode") = a.postcode
            /\ Get(b.v, "CountryId") = a.countryid
            /\ Get(b.v, "AgreementUrl") = "https://aka.ms/customeragreement"

\* C6: the request of every endpoint invocation has the method, the path (the
\* arguments substituted as they are, after the base URL) and the body of its
\* row in the operation table.
C6_OperationTable ==
    call.op \in EndpointOps
        => /\ Len(requests) = 1
           /\ requests[1].method = (IF call.op \in GetOps THEN "GET"
                                    ELSE IF call.op \in DeleteOps THEN "DELETE"
                                    ELSE "POST")
           /\ requests[1].url = client[call.self].url \o TablePath(call.op, call.args)
           /\ TableBody(call.op, call.args, requests[1].json)

\* C6's case: accept_mca called with a URL among its arguments still posts the
\* fixed agreement URL.
C6_Witness ==
    /\ call.op = "accept_mca"
    /\ call.args.email = "https://example.org/other-agreement"
    /\ Len(requests) = 1
    /\ requests[1].method = "POST"
    /\ Get(requests[1].json.v, "AgreementUrl") = "https://aka.ms/customeragreement"

\* C7 as stated: a 2xx response whose body is not JSON makes a GET operation
\* and a POST operation alike fail with a decoding error, and one whose body is
\* JSON makes them return the decoded body.
C7_TwoXXIsDecoded ==
    (Answered /\ call.op \in GetOps \cup PostOps /\ Received.status \in 200..299)
        => IF Received.text \in {JsonList, JsonDict}
           THEN result.exc = "" /\ ~result.ret.isNone
           ELSE result.exc = "JSONDecodeError"

\* C7 as amended: on a 2xx response a GET operation fails with a decoding error,
\* which is not the HTTP error, when the body is not JSON, and returns exactly
\* the decoded value when it is; a POST or DELETE operation never decodes the
\* body: on a 2xx response it returns nothing without an error, whatever the body.
C7_OnlyGetDecodes ==
    (Answered /\ call.op \in EndpointOps /\ Received.status \in 200..299)
        => IF call.op \in GetOps
           THEN CASE Received.text = JsonList ->
                        /\ result.exc = ""
                        /\ result.ret = Some(<<<<<<"PrimaryDomain", "x.com">>>>>>)
                  [] Received.text = JsonDict ->
                        /\ result.exc = ""
                        /\ result.ret = Some(<<<<"Quantity", 5>>>>)
                  [] OTHER ->
                        /\ result.exc = "JSONDecodeError"
                        /\ result.exc # "HTTPError"
                        /\ result.ret = None
           ELSE result.exc = "" /\ result.ret = None

\* C7's case: get_all_customers got a 200 whose body is not JSON and failed with
\* the decoding error.
C7_Witness ==
    /\ Answered
    /\ call.op = "get_all_customers"
    /\ Received.status = 200
    /\ Received.text = NotJson
    /\ result.exc = "JSONDecodeError"

\* C8: make_address returns exactly Line1, City and Postcode, plus Line2 iff
\* line2 is not empty and State iff state is not empty, make_contact exactly its
\* six keys, every key with its argument's value; neither sends a request, and
\* the result is this function of the arguments in every state, whatever the
\* instance and the calls before.
C8_PureHelpers ==
    /\ call.op = "make_address"
          => LET a == call.args
                 d == result.ret.v
             IN  /\ pc = "idle" /\ result.exc = "" /\ ~result.ret.isNone
                 /\ requests = <<>>
                 /\ Keys(d) = {"Line1", "City", "Postcode"}
                               \cup (IF a.line2 # "" THEN {"Line2"} ELSE {})
                               \cup (IF a.state # "" THEN {"State"} ELSE {})
                 /\ Len(d) = Cardinality(Keys(d))
                 /\ Get(d, "Line1") = a.line1 /\ Get(d, "City") = a.city
                 /\ Get(d, "Postcode") = a.postcode
                 /\ a.line2 # "" => Get(d, "Line2") = a.line2
                 /\ a.state # "" => Get(d, "State") = a.state
    /\ call.op = "make_contact"
          => LET a == call.args
                 d == result.ret.v
             IN  /\ pc = "idle" /\ result.exc = "" /\ ~result.ret.isNone
                 /\ requests = <<>>
                 /\ Keys(d) = {"FirstName", "LastName", "EmailAddress", "PhoneNumber",
                               "ContactType", "IsPrimaryContact"}
                 /\ Len(d) = 6
                 /\ Get(d, "FirstName") = a.firstname
                 /\ Get(d, "LastName") = a.lastname
                 /\ Get(d, "EmailAddress") = a.email
                 /\ Get(d, "PhoneNumber") = a.phone
                 /\ Get(d, "ContactType") = a.contacttype
                 /\ Get(d, "IsPrimaryContact") = a.primary

\* C8's case: after an earlier invocation, make_address on instance 2 with a
\* state and no line2.
C8_Witness ==
    /\ nOps = 2
    /\ call.op = "make_address"
    /\ call.self = 2
    /\ call.args.line2 = ""
    /\ call.args.state = "CA"
    /\ Keys(result.ret.v) = {"Line1", "City", "Postcode", "State"}
    /\ Get(result.ret.v, "State") = "CA"

\* C9: no step of any operation, successful or failed, changes the base URL or
\* the session headers of any instance.
C9_ConfigImmutable == [][client' = client]_vars

\* C9's case: the second invocation failed with an HTTP error.
C9_Witness ==
    /\ nOps = 2
    /\ Answered
    /\ result.exc = "HTTPError"
    /\ Get(client[call.self].headers, "X-Username") = CtorUsername[call.self]

\* C10: the default containers are empty in every state; a create_customer that
\* leaves billing_address and contacts to their defaults posts neither
\* BillingAddress nor Contacts, and a GET without params sends an empty query,
\* whatever was called before on either instance.
C10_DefaultsNotAliased ==
    /\ params_default = EmptyDict
    /\ billing_address_default = EmptyDict
    /\ contacts_default = EmptyList
    /\ (call.op = "create_customer" /\ ~call.args.billing_address.given)
          => "BillingAddress" \notin Keys(requests[1].json.v)
    /\ (call.op = "create_customer" /\ ~call.args.contacts.given)
          => "Contacts" \notin Keys(requests[1].json.v)
    /\ (call.op \in GetOps \/ (call.op = "sendget" /\ ~call.args.params.given))
          => /\ Len(requests) = 1
             /\ requests[1].params = Some(EmptyDict)

\* C10's case: the second invocation is a create_customer with both left unset.
C10_Witness ==
    /\ nOps = 2
    /\ call.op = "create_customer"
    /\ ~call.args.billing_address.given
    /\ ~call.args.contacts.given
    /\ Len(requests) = 1
    /\ call.args.eu_vat_number # ""

====
